---- MODULE Spec2Model ----
(***************************************************************************)
(* Model of main.py: the message parser (parse_and_format_message), the    *)
(* message handler with its immediate-send / queue decision (handler),     *)
(* the relay to all target channels (forward_to_targets) and the queue     *)
(* drain task (process_queue), as asyncio tasks that interleave at their   *)
(* await points.                                                           *)
(*                                                                         *)
(* A text is a sequence of characters, each character a string.  The       *)
(* non-ASCII characters of the source are written by name:                 *)
(*   "PLUSMINUS" = U+00B1, "MONEYBAG" = U+1F4B0, "ENVELOPE" = U+1F9E7,      *)
(*   "GIFT" = U+1F381.                                                     *)
(***************************************************************************)
EXTENDS Integers, Sequences, FiniteSets, TLC

\* ------------------------------------------------------------------------
\* Bounds of the model
\* ------------------------------------------------------------------------
\* number of inbound messages that handler accepts
MaxMsgs == 3
\* one more of them, for the bursts of SpecBurst
MaxBurst == MaxMsgs + 1
\* messages arrive during the first Horizon time units
Horizon == 4
\* one more of them, for the bursts of SpecBurst
BurstHorizon == Horizon + 1

\* ------------------------------------------------------------------------
\* Configuration (main.py:49-54), read from the environment.  One time unit
\* of the model is the 1 s of forward_to_targets' pacing sleep; QUEUE_DELAY
\* and RATE_LIMIT are set to a few units, queue_delay the larger as in the
\* defaults that hold when the variables are unset.
\* ------------------------------------------------------------------------
target_channels == <<"chanA", "chanB">>
queue_delay == 3
rate_limit == 2
\* forward_to_targets: pacing after a successful send, backoff after a failure
SendPause == 1
ErrorPause == 2
\* the reading of time.time() when the first message arrives: more than
\* rate_limit after the epoch, the initial last_forward_time
StartTime == 3

\* ------------------------------------------------------------------------
\* Characters and character classes (re: \d, \s, [A-Z0-9], [A-Za-z0-9])
\* ------------------------------------------------------------------------
Digits == {"0", "1", "2", "3", "4", "5", "6", "7", "8", "9"}
Upper == {"A", "B", "C", "D", "E", "F", "G", "H", "I", "J", "K", "L", "M",
          "N", "O", "P", "Q", "R", "S", "T", "U", "V", "W", "X", "Y", "Z"}
Lower == {"a", "b", "c", "d", "e", "f", "g", "h", "i", "j", "k", "l", "m",
          "n", "o", "p", "q", "r", "s", "t", "u", "v", "w", "x", "y", "z"}
Space == {" ", "\t", "\r"}
DigitDot == Digits \cup {"."}
UpperDigit == Upper \cup Digits
Alnum == Upper \cup Lower \cup Digits

Max(S) == CHOOSE x \in S : \A y \in S : y <= x
Min(S) == CHOOSE x \in S : \A y \in S : x <= y

\* index of the last character of the longest run of characters of cls that
\* starts at s[i]; i - 1 when s[i] is not in cls (a greedy cls* from i)
RunEnd(s, i, cls) ==
    IF i > Len(s) THEN i - 1
    ELSE Max({j \in (i - 1)..Len(s) : \A k \in i..j : s[k] \in cls})

\* `lit in s` at position p
LitAt(s, p, lit) ==
    /\ p >= 1
    /\ p + Len(lit) - 1 <= Len(s)
    /\ \A i \in 1..Len(lit) : s[p + i - 1] = lit[i]

\* Python's `lit in s`
Contains(s, lit) == \E p \in 1..Len(s) : LitAt(s, p, lit)

\* ------------------------------------------------------------------------
\* parse_and_format_message (main.py:81-128)
\* ------------------------------------------------------------------------
\* the result None
None == <<>>

\* end of the match of <[^>]+> that starts at s[i] = "<", or 0 when none
TagEnd(s, i) ==
    LET gts == {j \in (i + 1)..Len(s) : s[j] = ">"}
    IN  IF s[i] = "<" /\ gts # {} /\ Min(gts) >= i + 2 THEN Min(gts) ELSE 0

\* s from s[i] on, without the matches of <[^>]+>, leftmost first
RECURSIVE StripFrom(_, _)
StripFrom(s, i) ==
    LET tags == {j \in i..Len(s) : TagEnd(s, j) # 0}
    IN  IF tags = {} THEN SubSeq(s, i, Len(s))
        ELSE SubSeq(s, i, Min(tags) - 1)
             \o StripFrom(s, TagEnd(s, Min(tags)) + 1)

\* re.sub(r'<[^>]+>', '', text)
StripTags(s) == StripFrom(s, 1)

\* text.split("\n")
RECURSIVE SplitFrom(_, _)
SplitFrom(s, i) ==
    LET nls == {j \in i..Len(s) : s[j] = "\n"}
    IN  IF nls = {} THEN <<SubSeq(s, i, Len(s))>>
        ELSE <<SubSeq(s, i, Min(nls) - 1)>> \o SplitFrom(s, Min(nls) + 1)

SplitLines(s) == SplitFrom(s, 1)

\* line.strip()
Strip(l) ==
    LET inner == {j \in 1..Len(l) : l[j] \notin Space}
    IN  IF inner = {} THEN <<>> ELSE SubSeq(l, Min(inner), Max(inner))

\* [line.strip() for line in text.split("\n") if line.strip()]
Lines(s) ==
    LET raw == SplitLines(s)
        keep == SelectSeq(raw, LAMBDA l : Strip(l) # <<>>)
    IN  [i \in 1..Len(keep) |-> Strip(keep[i])]

\* re.search(r'<PLUSMINUS>\s*([\d.]+)\s*([A-Za-z0-9]+)', line):
\* the match that starts at the plus-minus sign s[p], as
\* [ok, amount, token].  The amount group is greedy and gives characters
\* back only until a token character can follow it.
AmountAt(s, p) ==
    LET a == RunEnd(s, p + 1, Space) + 1
        e == RunEnd(s, a, DigitDot)
        TokStart(k) == RunEnd(s, k + 1, Space) + 1
        ks == {k \in a..e : TokStart(k) <= Len(s) /\ s[TokStart(k)] \in Alnum}
    IN  IF p <= Len(s) /\ s[p] = "PLUSMINUS" /\ ks # {}
        THEN [ok |-> TRUE,
              amount |-> SubSeq(s, a, Max(ks)),
              token |-> SubSeq(s, TokStart(Max(ks)),
                               RunEnd(s, TokStart(Max(ks)), Alnum))]
        ELSE [ok |-> FALSE, amount |-> <<>>, token |-> <<>>]

match_amount(line) ==
    LET ps == {p \in 1..Len(line) : AmountAt(line, p).ok}
    IN  IF ps = {} THEN [ok |-> FALSE, amount |-> <<>>, token |-> <<>>]
        ELSE AmountAt(line, Min(ps))

ClaimedLit == <<"C", "l", "a", "i", "m", "e", "d", ":">>

\* re.search(r'Claimed:\s*(\d+)\s*/\s*(\d+)', line) starting at s[p]
ClaimAt(s, p) ==
    LET a == RunEnd(s, p + Len(ClaimedLit), Space) + 1
        e == RunEnd(s, a, Digits)
        c == RunEnd(s, e + 1, Space) + 1
        d == RunEnd(s, c + 1, Space) + 1
        f == RunEnd(s, d, Digits)
    IN  IF /\ LitAt(s, p, ClaimedLit)
           /\ e >= a
           /\ c <= Len(s)
           /\ s[c] = "/"
           /\ f >= d
        THEN [ok |-> TRUE, claimed |-> SubSeq(s, a, e), total |-> SubSeq(s, d, f)]
        ELSE [ok |-> FALSE, claimed |-> <<>>, total |-> <<>>]

\* the claim pattern without its `Claimed:` label
match_ratio(line) ==
    LET At(p) == ClaimAt(ClaimedLit \o SubSeq(line, p, Len(line)), 1)
        ps == {p \in 1..Len(line) : line[p] \in Digits /\ At(p).ok}
    IN  IF ps = {} THEN [ok |-> FALSE, claimed |-> <<>>, total |-> <<>>]
        ELSE At(Min(ps))

match_claim(line) ==
    LET ps == {p \in 1..Len(line) : ClaimAt(line, p).ok}
    IN  IF ps = {} THEN [ok |-> FALSE, claimed |-> <<>>, total |-> <<>>]
        ELSE ClaimAt(line, Min(ps))

\* re.search(r'<GIFT>\s*([A-Z0-9]+)', line) starting at s[p]
CodeAt(s, p) ==
    LET a == RunEnd(s, p + 1, Space) + 1
        e == RunEnd(s, a, UpperDigit)
    IN  IF p <= Len(s) /\ s[p] = "GIFT" /\ e >= a
        THEN [ok |-> TRUE, code |-> SubSeq(s, a, e)]
        ELSE [ok |-> FALSE, code |-> <<>>]

\* the code pattern without its gift sign
match_code_unsigned(line) ==
    LET At(p) == CodeAt(<<"GIFT">> \o SubSeq(line, p, Len(line)), 1)
        ps == {p \in 1..Len(line) : line[p] \in UpperDigit}
    IN  IF ps = {} THEN [ok |-> FALSE, code |-> <<>>]
        ELSE At(Min(ps))

match_code(line) ==
    LET ps == {p \in 1..Len(line) : CodeAt(line, p).ok}
    IN  IF ps = {} THEN [ok |-> FALSE, code |-> <<>>]
        ELSE CodeAt(line, Min(ps))

\* the template with total and claimed in each other's place
FormattedSwapped(code, amount, token, claimed, total) ==
    <<"GIFT", " ", "C", "o", "d", "e", ":", " ">> \o code \o <<"\n">>
    \o <<"MONEYBAG", " ", "A", "m", "o", "u", "n", "t", ":", " ">>
    \o amount \o <<" ">> \o token \o <<"\n">>
    \o <<"ENVELOPE", " ", "P", "r", "o", "g", "r", "e", "s", "s", ":", " ">>
    \o total \o <<" ", "/", " ">> \o claimed \o <<"\n", "\n">>
    \o <<"#", "B", "i", "n", "a", "n", "c", "e", " ",
         "#", "R", "e", "d", "P", "a", "c", "k", "e", "t", "H", "u", "b">>

\* a template that keeps the layout of the inbound message
FormattedAsSource(code, amount, token, claimed, total) ==
    <<"MONEYBAG", " ", "PLUSMINUS", " ">> \o amount \o <<" ">> \o token
    \o <<"\n", "ENVELOPE", " ">> \o ClaimedLit \o <<" ">> \o claimed
    \o <<" ", "/", " ">> \o total \o <<"\n", "GIFT", " ">> \o code

\* the f-string of main.py:122-127
Formatted(code, amount, token, claimed, total) ==
    <<"GIFT", " ", "C", "o", "d", "e", ":", " ">> \o code \o <<"\n">>
    \o <<"MONEYBAG", " ", "A", "m", "o", "u", "n", "t", ":", " ">>
    \o amount \o <<" ">> \o token \o <<"\n">>
    \o <<"ENVELOPE", " ", "P", "r", "o", "g", "r", "e", "s", "s", ":", " ">>
    \o claimed \o <<" ", "/", " ">> \o total \o <<"\n", "\n">>
    \o <<"#", "B", "i", "n", "a", "n", "c", "e", " ",
         "#", "R", "e", "d", "P", "a", "c", "k", "e", "t", "H", "u", "b">>

parse_and_format_message(text) ==
    LET lines == Lines(StripTags(text))
    IN  IF Len(lines) < 3 THEN None
        ELSE IF ~match_amount(lines[1]).ok THEN None
        ELSE IF ~match_claim(lines[2]).ok THEN None
        ELSE IF ~match_code(lines[3]).ok THEN None
        ELSE Formatted(match_code(lines[3]).code,
                       match_amount(lines[1]).amount,
                       match_amount(lines[1]).token,
                       match_claim(lines[2]).claimed,
                       match_claim(lines[2]).total)

\* the link test without its test of the anchor tag
HasUrl(raw) ==
    \/ Contains(raw, <<"h", "t", "t", "p", ":", "/", "/">>)
    \/ Contains(raw, <<"h", "t", "t", "p", "s", ":", "/", "/">>)

\* the link test of handler (main.py:142)
HasLink(raw) ==
    \/ Contains(raw, <<"h", "t", "t", "p", ":", "/", "/">>)
    \/ Contains(raw, <<"h", "t", "t", "p", "s", ":", "/", "/">>)
    \/ Contains(raw, <<"<", "a", " ", "h", "r", "e", "f", "=">>)

\* ------------------------------------------------------------------------
\* Inbound messages: event.message.message (main.py:139)
\* ------------------------------------------------------------------------
Msgs == 1..MaxBurst
DigitChar == <<"1", "2", "3", "4", "5", "6", "7", "8", "9">>
\* every message carries its own code, so that records can be told apart
CodeOf(h) == <<"K", DigitChar[h]>>

\* the raw texts the model draws message h from
RawKinds == {"wellformed", "link", "badline2"}
Raw(h, kind) ==
    CASE kind = "wellformed" ->
           <<"MONEYBAG", " ", "PLUSMINUS", " ", "0", ".", "5", " ", "B", "N", "B",
             "\n", "ENVELOPE", " ", "C", "l", "a", "i", "m", "e", "d", ":", " ",
             "6", " ", "/", " ", "7", "\n", "GIFT", " ">> \o CodeOf(h)
      [] kind = "link" ->
           <<"MONEYBAG", " ", "PLUSMINUS", " ", "0", ".", "5", " ", "B", "N", "B",
             "\n", "ENVELOPE", " ", "C", "l", "a", "i", "m", "e", "d", ":", " ",
             "6", " ", "/", " ", "7", "\n", "GIFT", " ">> \o CodeOf(h)
           \o <<"\n", "h", "t", "t", "p", ":", "/", "/", "x">>
      [] kind = "badline2" ->
           <<"MONEYBAG", " ", "PLUSMINUS", " ", "0", ".", "5", " ", "B", "N", "B",
             "\n", "ENVELOPE", " ", "6", " ", "/", " ", "7", "\n", "GIFT", " ">>
           \o CodeOf(h)

\* handler returns at main.py:144 or main.py:149 on this raw text
Skips(raw) == HasLink(raw) \/ parse_and_format_message(raw) = None

\* The state holds a record (the str object `parsed`) by the number of the
\* message it was parsed from; Record(h) is its text.
Record(h) == parse_and_format_message(Raw(h, "wellformed"))


\* ------------------------------------------------------------------------
\* Texts for parse_and_format_message: three lines, each drawn from lines
\* that match its pattern and lines that do not, put together in a layout
\* ------------------------------------------------------------------------
\* first lines: three that match the amount pattern, two that do not
AmountLines ==
    {
      <<"MONEYBAG", " ", "PLUSMINUS", " ", "0", ".", "5", " ", "B", "N", "B">>,
      <<"PLUSMINUS", "0", ".", "5", "B", "N", "B">>,
      <<"PLUSMINUS", " ", "1", "2">>,
      <<"MONEYBAG", " ", "0", ".", "5", " ", "B", "N", "B">>,
      <<"PLUSMINUS", " ", "B", "N", "B">>
    }

\* second lines: two that match the claim pattern, three that do not
ClaimLines ==
    {
      <<"ENVELOPE", " ", "C", "l", "a", "i", "m", "e", "d", ":", " ", "6",
        " ", "/", " ", "7">>,
      <<"C", "l", "a", "i", "m", "e", "d", ":", "6", "4", "/", "7">>,
      <<"ENVELOPE", " ", "6", " ", "/", " ", "7">>,
      <<"C", "l", "a", "i", "m", "e", "d", ":", " ", "6">>,
      <<"c", "l", "a", "i", "m", "e", "d", ":", " ", "6", " ", "/", " ", "7">>
    }

\* third lines: two that match the code pattern, two that do not
CodeLines ==
    {
      <<"GIFT", " ", "K", "1">>,
      <<"GIFT", "A", "B", "c", "d">>,
      <<"K", "1">>,
      <<"GIFT", " ", "k", "1">>
    }

\* the well-formed message of the source's comments (main.py:96,105,114)
Example ==
    <<"MONEYBAG", " ", "PLUSMINUS", " ", "0", ".", "0", "0", "0", "0", "0",
      "0", "0", "2", " ", "B", "N", "B", "\n", "ENVELOPE", " ", "C", "l",
      "a", "i", "m", "e", "d", ":", " ", "6", "4", "6", " ", "/", " ", "7",
      "1", "1", "\n", "GIFT", " ", "I", "J", "A", "U", "5", "U", "L", "6">>

Layouts == {"plain", "spaced", "tagged", "extra", "short", "swallowed",
            "http", "https", "anchor"}

\* the text with lines a, b, c in a layout
Layout(l, a, b, c) ==
    LET nl == <<"\n">>
        plain == a \o nl \o b \o nl \o c
    IN  CASE l = "plain" -> plain
          \* blank lines and white space around the lines
          [] l = "spaced" -> <<" ">> \o a \o <<"\t", "\n", " ", "\n">> \o b
                             \o <<"\r", "\n", "\n">> \o c \o nl
          \* markup around the first line
          [] l = "tagged" -> <<"<", "b", ">">> \o a \o <<"<", "/", "b", ">">>
                             \o nl \o b \o nl \o c
          \* a fourth line
          [] l = "extra" -> plain \o nl \o <<"9", " ", "l", "e", "f", "t">>
          \* two lines only
          [] l = "short" -> a \o nl \o b
          \* the second line inside a markup tag
          [] l = "swallowed" -> a \o nl \o <<"<">> \o b \o <<">">> \o nl \o c
          \* a link after the three lines
          [] l = "http" -> plain \o nl \o <<"h", "t", "t", "p", ":", "/", "/", "x">>
          [] l = "https" -> <<"h", "t", "t", "p", "s", ":", "/", "/", "x", " ">>
                            \o plain
          [] l = "anchor" -> a \o <<"<", "a", " ", "h", "r", "e", "f", "=", "x", ">">>
                             \o nl \o b \o nl \o c

Texts ==
    {Layout(l, a, b, c) :
        l \in Layouts, a \in AmountLines, b \in ClaimLines, c \in CodeLines}
    \cup {Example}

\* the texts of the event that the intake specification follows: every
\* layout of three matching lines, and the plain layout with one line
\* varied at a time
IntakeTexts ==
    LET a0 == <<"MONEYBAG", " ", "PLUSMINUS", " ", "0", ".", "5", " ", "B", "N",
                "B">>
        b0 == <<"ENVELOPE", " ", "C", "l", "a", "i", "m", "e", "d", ":", " ",
                "6", " ", "/", " ", "7">>
        c0 == <<"GIFT", " ", "K", "1">>
    IN  {Layout(l, a0, b0, c0) : l \in Layouts}
        \cup {Layout("plain", a, b0, c0) : a \in AmountLines}
        \cup {Layout("plain", a0, b, c0) : b \in ClaimLines}
        \cup {Layout("plain", a0, b0, c) : c \in CodeLines}
        \cup {Example}

\* `parsed` before handler assigns it
Unset == <<"UNSET">>

\* ------------------------------------------------------------------------
\* State
\* ------------------------------------------------------------------------
\* the tasks of the event loop: the handler of the h-th accepted message,
\* and the process_queue task that this handler creates
H(h) == h
D(h) == MaxBurst + h
Tasks == 1..(2 * MaxBurst)

VARIABLES
    inbox,              \* inbox[h][kind]: handler skips this text of message h
    now,                \* time.time()
    arrived,            \* number of accepted messages so far
    message_queue,      \* main.py:74
    is_forwarding,      \* main.py:75
    last_forward_time,  \* main.py:76
    pc,                 \* pc[t]: where task t is suspended
    current,            \* current[h]: handler h's local `current`
    text,               \* text[t]: the argument of t's forward_to_targets call
    chan,               \* chan[t]: index in target_channels of t's relay loop
    timer,              \* timer[t]: time left of the asyncio.sleep t awaits
    tried,              \* tried[t]: channels t's forward_to_targets call sent to
    enqueued,           \* records appended to message_queue, in order
    relayed,            \* records process_queue popped and relayed, in order
    sincePop,           \* time since the last popleft, up to queue_delay
    raw,                \* the text the parser is applied to
    parsed              \* the result of parse_and_format_message(raw)

vars == <<inbox, now, arrived, message_queue, is_forwarding, last_forward_time,
          pc, current, text, chan, timer, tried, enqueued, relayed,
          sincePop, raw, parsed>>

HandlerPc == {"none", "send", "pause", "done", "queued"}
DrainPc == {"none", "start", "sleep", "send", "pause", "done", "error"}

\* the module globals and the tasks when the event loop starts
ProgramStart ==
    /\ inbox = [h \in Msgs |-> [kind \in RawKinds |-> Skips(Raw(h, kind))]]
    /\ now = StartTime
    /\ arrived = 0
    /\ message_queue = <<>>
    /\ is_forwarding = FALSE
    /\ last_forward_time = 0
    /\ pc = [t \in Tasks |-> "none"]
    /\ current = [h \in Msgs |-> 0]
    /\ text = [t \in Tasks |-> 0]
    /\ chan = [t \in Tasks |-> 0]
    /\ timer = [t \in Tasks |-> 0]
    /\ tried = [t \in Tasks |-> <<>>]
    /\ enqueued = <<>>
    /\ relayed = <<>>
    /\ sincePop = 0

Init ==
    /\ ProgramStart
    /\ raw = <<>>
    /\ parsed = Unset

\* ------------------------------------------------------------------------
\* forward_to_targets (main.py:170-179)
\* ------------------------------------------------------------------------
\* the call: the loop takes the first channel and awaits client.send_message
StartRelay(t, m) ==
    /\ pc' = [pc EXCEPT ![t] = "send"]
    /\ text' = [text EXCEPT ![t] = m]
    /\ chan' = [chan EXCEPT ![t] = 1]
    /\ tried' = [tried EXCEPT ![t] = <<target_channels[1]>>]

\* client.send_message returned: log, then await asyncio.sleep(1)
SendReturns(t) ==
    /\ pc[t] = "send"
    /\ pc' = [pc EXCEPT ![t] = "pause"]
    /\ timer' = [timer EXCEPT ![t] = SendPause]
    /\ UNCHANGED <<inbox, now, arrived, message_queue, is_forwarding,
                   last_forward_time, current, text, chan, tried, enqueued,
                   relayed, sincePop>>
    /\ UNCHANGED <<raw, parsed>>

\* no except clause: the exception ends the task
Propagate(t) ==
    /\ pc' = [pc EXCEPT ![t] = "error"]
    /\ UNCHANGED <<timer, message_queue, is_forwarding, last_forward_time>>

\* an except clause that also puts the text back for a later retry
RequeueOnError(t) ==
    /\ pc' = [pc EXCEPT ![t] = "pause"]
    /\ timer' = [timer EXCEPT ![t] = ErrorPause]
    /\ message_queue' = Append(message_queue, text[t])
    /\ UNCHANGED <<is_forwarding, last_forward_time>>

\* except Exception (main.py:177-179): log, then await asyncio.sleep(2);
\* nothing else is written
OnSendError(t) ==
    /\ pc' = [pc EXCEPT ![t] = "pause"]
    /\ timer' = [timer EXCEPT ![t] = ErrorPause]
    /\ UNCHANGED <<message_queue, is_forwarding, last_forward_time>>

\* client.send_message raised
SendRaises(t) ==
    /\ pc[t] = "send"
    /\ OnSendError(t)
    /\ UNCHANGED <<inbox, now, arrived, current, text, chan, tried, enqueued,
                   relayed, sincePop>>
    /\ UNCHANGED <<raw, parsed>>

\* the for loop has a further channel after chan[t]
MoreChannels(t) == chan[t] < Len(target_channels)

\* the sleep is over and the loop goes on to the next channel
NextChannel(t) ==
    /\ pc' = [pc EXCEPT ![t] = "send"]
    /\ chan' = [chan EXCEPT ![t] = chan[t] + 1]
    /\ tried' = [tried EXCEPT ![t] = Append(tried[t], target_channels[chan[t] + 1])]

\* forward_to_targets returns: its frame is gone
EndRelay(t) ==
    /\ text' = [text EXCEPT ![t] = 0]
    /\ chan' = [chan EXCEPT ![t] = 0]
    /\ tried' = [tried EXCEPT ![t] = <<>>]

\* ------------------------------------------------------------------------
\* handler (main.py:135-164)
\* ------------------------------------------------------------------------
\* deque.appendleft(x)
appendleft(q, x) == <<x>> \o q

\* message_queue.append(parsed) (main.py:160)
append(q, x) == Append(q, x)

\* the test with `and` for `or`
BothTests(fwd, cur, last) == ~fwd /\ (cur - last > rate_limit)

\* the test without `not is_forwarding`
WindowOnly(fwd, cur, last) == cur - last > rate_limit

\* main.py:154
ImmediateSlot(fwd, cur, last) == ~fwd \/ (cur - last > rate_limit)

\* an event with a link or of another format arrives while the clock reads
\* less than `until`: handler logs and returns
Skip(until) ==
    /\ now < until
    /\ ~(\A h \in Msgs, kind \in RawKinds : ~inbox[h][kind])
    /\ UNCHANGED vars

\* an event that parses arrives while the clock reads less than `until`:
\* handler runs up to its first await (the immediate relay), or to its end
\* (the append)
Admit(h, until) ==
    /\ h = arrived + 1
    /\ now < until
    /\ pc[H(h)] = "none"
    /\ \E kind \in RawKinds : ~inbox[h][kind]
    /\ arrived' = h
    /\ IF ImmediateSlot(is_forwarding, now, last_forward_time)
       THEN /\ current' = [current EXCEPT ![h] = now]
            /\ StartRelay(H(h), h)
            /\ UNCHANGED <<message_queue, enqueued>>
       ELSE /\ message_queue' = append(message_queue, h)
            /\ enqueued' = Append(enqueued, h)
            /\ pc' = [pc EXCEPT ![H(h)] = "queued"]
            /\ UNCHANGED <<current, text, chan, tried>>
    /\ UNCHANGED <<inbox, now, is_forwarding, last_forward_time, timer, relayed,
                   sincePop>>

\* handler for an accepted message of the inbox
Arrive(h, until) ==
    /\ Admit(h, until)
    /\ UNCHANGED <<raw, parsed>>

\* handler resumes from the sleep in forward_to_targets: the next send, or
\* the return of forward_to_targets and main.py:156-158
HandlerResume(h) ==
    /\ pc[H(h)] = "pause"
    /\ timer[H(h)] = 0
    /\ IF MoreChannels(H(h))
       THEN /\ NextChannel(H(h))
            /\ UNCHANGED <<is_forwarding, last_forward_time, current, text>>
       ELSE /\ last_forward_time' = current[h]
            /\ is_forwarding' = TRUE
            /\ pc' = [pc EXCEPT ![H(h)] = "done", ![D(h)] = "start"]
            /\ current' = [current EXCEPT ![h] = 0]
            /\ EndRelay(H(h))
    /\ UNCHANGED <<inbox, now, arrived, message_queue, timer, enqueued, relayed,
                   sincePop>>
    /\ UNCHANGED <<raw, parsed>>

\* ------------------------------------------------------------------------
\* process_queue (main.py:182-190)
\* ------------------------------------------------------------------------
\* deque.pop(): the newest item and the rest
pop(q) == <<q[Len(q)], SubSeq(q, 1, Len(q) - 1)>>

\* message_queue.popleft() (main.py:187): the oldest item and the rest
popleft(q) == <<Head(q), Tail(q)>>

\* the loop test as `while len(message_queue) > 1:`
LoopTestLeavesLast(d) ==
    IF Len(message_queue) > 1
    THEN /\ pc' = [pc EXCEPT ![D(d)] = "sleep"]
         /\ timer' = [timer EXCEPT ![D(d)] = queue_delay]
         /\ UNCHANGED is_forwarding
    ELSE /\ pc' = [pc EXCEPT ![D(d)] = "done"]
         /\ is_forwarding' = FALSE
         /\ UNCHANGED timer

\* the loop without the statement after it (main.py:190)
LoopTestKeepsFlag(d) ==
    IF message_queue # <<>>
    THEN /\ pc' = [pc EXCEPT ![D(d)] = "sleep"]
         /\ timer' = [timer EXCEPT ![D(d)] = queue_delay]
         /\ UNCHANGED is_forwarding
    ELSE /\ pc' = [pc EXCEPT ![D(d)] = "done"]
         /\ UNCHANGED <<is_forwarding, timer>>

\* `while message_queue:` and what follows it up to the next await
LoopTest(d) ==
    IF message_queue # <<>>
    THEN /\ pc' = [pc EXCEPT ![D(d)] = "sleep"]
         /\ timer' = [timer EXCEPT ![D(d)] = queue_delay]
         /\ UNCHANGED is_forwarding
    ELSE /\ pc' = [pc EXCEPT ![D(d)] = "done"]
         /\ is_forwarding' = FALSE
         /\ UNCHANGED timer

\* the task created at main.py:158 gets its first turn
DrainStart(d) ==
    /\ pc[D(d)] = "start"
    /\ LoopTest(d)
    /\ UNCHANGED <<inbox, now, arrived, message_queue, last_forward_time,
                   current, text, chan, tried, enqueued, relayed,
                   sincePop>>
    /\ UNCHANGED <<raw, parsed>>

\* asyncio.sleep(queue_delay) is over: popleft (IndexError on an empty
\* deque ends the task) and the call of forward_to_targets
DrainWake(d) ==
    /\ pc[D(d)] = "sleep"
    /\ timer[D(d)] = 0
    /\ IF message_queue = <<>>
       THEN /\ pc' = [pc EXCEPT ![D(d)] = "error"]
            /\ UNCHANGED <<message_queue, text, chan, tried, relayed,
                           sincePop>>
       ELSE /\ message_queue' = popleft(message_queue)[2]
            /\ StartRelay(D(d), popleft(message_queue)[1])
            /\ relayed' = Append(relayed, popleft(message_queue)[1])
            /\ sincePop' = 0
    /\ UNCHANGED <<inbox, now, arrived, is_forwarding, last_forward_time,
                   current, timer, enqueued>>
    /\ UNCHANGED <<raw, parsed>>

\* process_queue resumes from the sleep in forward_to_targets: the next
\* send, or the return of forward_to_targets and the loop test
DrainResume(d) ==
    /\ pc[D(d)] = "pause"
    /\ timer[D(d)] = 0
    /\ IF MoreChannels(D(d))
       THEN /\ NextChannel(D(d))
            /\ UNCHANGED <<is_forwarding, timer, text>>
       ELSE /\ EndRelay(D(d))
            /\ LoopTest(d)
    /\ UNCHANGED <<inbox, now, arrived, message_queue, last_forward_time,
                   current, enqueued, relayed, sincePop>>
    /\ UNCHANGED <<raw, parsed>>

\* ------------------------------------------------------------------------
\* Time
\* ------------------------------------------------------------------------
Sleeping(t) == pc[t] \in {"pause", "sleep"}

\* a time unit passes: no sleep is overdue and no created task waits for its
\* first turn.  The clock is followed up to `until`, after which no handler
\* reads it any more.
Tick(until) ==
    /\ \A t \in Tasks : Sleeping(t) => timer[t] > 0
    /\ \A t \in Tasks : pc[t] # "start"
    /\ \/ now < until
       \/ \E t \in Tasks : Sleeping(t)
    /\ now' = IF now < until THEN now + 1 ELSE now
    /\ timer' = [t \in Tasks |-> IF Sleeping(t) THEN timer[t] - 1 ELSE timer[t]]
    /\ sincePop' = IF sincePop < queue_delay THEN sincePop + 1 ELSE sincePop
    /\ UNCHANGED <<inbox, arrived, message_queue, is_forwarding,
                   last_forward_time, pc, current, text, chan, tried, enqueued, relayed>>
    /\ UNCHANGED <<raw, parsed>>

\* the steps of the program while at most `limit` messages are accepted and
\* messages arrive while the clock reads less than `until`
Step(limit, until) ==
    \/ Skip(until)
    \/ \E h \in 1..limit : Arrive(h, until)
    \/ \E t \in Tasks : SendReturns(t)
    \/ \E t \in Tasks : SendRaises(t)
    \/ \E h \in Msgs : HandlerResume(h)
    \/ \E d \in Msgs : DrainStart(d)
    \/ \E d \in Msgs : DrainWake(d)
    \/ \E d \in Msgs : DrainResume(d)
    \/ Tick(until)

Next == Step(MaxMsgs, StartTime + Horizon)
NextBurst == Step(MaxBurst, StartTime + BurstHorizon)

Spec == Init /\ [][Next]_vars
SpecBurst == Init /\ [][NextBurst]_vars

\* The event loop gives every ready task a turn, an awaited send returns or
\* raises, and time passes.  Nothing is assumed about arrivals.
Fairness ==
    /\ WF_vars(Tick(StartTime + Horizon))
    /\ \A t \in Tasks : WF_vars(SendReturns(t) \/ SendRaises(t))
    /\ \A h \in Msgs : WF_vars(HandlerResume(h))
    /\ \A d \in Msgs : WF_vars(DrainStart(d))
    /\ \A d \in Msgs : WF_vars(DrainWake(d))
    /\ \A d \in Msgs : WF_vars(DrainResume(d))

FairSpec == Spec /\ Fairness

\* ------------------------------------------------------------------------
\* parse_and_format_message applied to the texts of Texts, and applied
\* again to its own result as a new text
\* ------------------------------------------------------------------------
core == <<inbox, now, arrived, message_queue, is_forwarding, last_forward_time,
          pc, current, text, chan, timer, tried, enqueued, relayed, sincePop>>

InitParse ==
    /\ ProgramStart
    /\ parsed = Unset
    /\ raw \in Texts

\* parsed = parse_and_format_message(raw) (main.py:146)
Parse ==
    /\ parsed = Unset
    /\ parsed' = parse_and_format_message(raw)
    /\ UNCHANGED <<raw, core>>

\* the formatted text comes in as a new raw text
FeedBack ==
    /\ parsed # Unset
    /\ parsed # None
    /\ raw' = parsed
    /\ parsed' = Unset
    /\ UNCHANGED core

NextParse == Parse \/ FeedBack

SpecParse == InitParse /\ [][NextParse]_vars

\* ------------------------------------------------------------------------
\* handler on one event whose text is any of IntakeTexts, among the events
\* of accepted messages (main.py:135-161)
\* ------------------------------------------------------------------------
\* number of other accepted messages
IntakeMsgs == 1
\* the events arrive during the first IntakeHorizon time units
IntakeHorizon == Horizon - 1

\* handler up to its return or its first await, for the event with text r
Receive(r, until) ==
    /\ raw = <<>>
    /\ now < until
    /\ raw' = r
    /\ IF HasLink(r)
       THEN /\ parsed' = Unset
            /\ UNCHANGED core
       ELSE /\ parsed' = parse_and_format_message(r)
            /\ IF parsed' = None
               THEN UNCHANGED core
               ELSE Admit(arrived + 1, until)

NextIntake ==
    \/ \E r \in IntakeTexts : Receive(r, StartTime + IntakeHorizon)
    \/ Step(IntakeMsgs, StartTime + IntakeHorizon)

SpecIntake == Init /\ [][NextIntake]_vars

TypeOK ==
    /\ now \in StartTime..(StartTime + BurstHorizon)
    /\ arrived \in 0..MaxBurst
    /\ is_forwarding \in BOOLEAN
    /\ last_forward_time \in 0..(StartTime + BurstHorizon)
    /\ \A h \in Msgs : pc[H(h)] \in HandlerPc /\ pc[D(h)] \in DrainPc
    /\ \A t \in Tasks : timer[t] \in 0..queue_delay /\ chan[t] \in 0..Len(target_channels)
    /\ Len(message_queue) <= MaxBurst
    /\ sincePop \in 0..queue_delay

\* ------------------------------------------------------------------------
\* Observations used by the properties
\* ------------------------------------------------------------------------
\* this step is handler's admission of an accepted message
Admits == arrived' = arrived + 1
\* handler h is between its test of the rate-limit state and its writes
Relaying(h) == pc[H(h)] \in {"send", "pause"}
\* process_queue task d has had its first turn and has not ended
Draining(d) == pc[D(d)] \in {"sleep", "send", "pause"}
\* process_queue task d exists and has not ended
Alive(d) == pc[D(d)] \in {"start", "sleep", "send", "pause"}

\* ------------------------------------------------------------------------
\* C1: an accepted record admitted no more than rate_limit after the last
\* immediate send is appended to the queue and not relayed at once.
\* ------------------------------------------------------------------------
C1_QueuedInsideWindow ==
    [][(Admits /\ now - last_forward_time <= rate_limit)
        => /\ pc'[H(arrived')] = "queued"
           /\ message_queue' = Append(message_queue, arrived')]_vars

\* ------------------------------------------------------------------------
\* C2: at every moment at most one process_queue task is running.
\* ------------------------------------------------------------------------
C2_SingleDrainLoop == Cardinality({d \in Msgs : Draining(d)}) <= 1

\* ------------------------------------------------------------------------
\* C3: the admission decision is atomic: no handler is admitted while
\* another handler is between its test of is_forwarding / last_forward_time
\* and its writes of them.
\* ------------------------------------------------------------------------
C3_AtomicAdmission ==
    [][(\E g \in Msgs : Relaying(g)) => ~Admits]_vars

\* ------------------------------------------------------------------------
\* C4: every record appended to the queue is popped and passed to
\* forward_to_targets by process_queue exactly once, in the order of the
\* appends: the records popped so far followed by the records still queued
\* are the records appended, no record is popped twice, each running relay
\* of process_queue carries a popped record of its own, and no record stays
\* queued with no process_queue task left to pop it.
\* ------------------------------------------------------------------------
C4_DrainedOnceInOrder ==
    /\ enqueued = relayed \o message_queue
    /\ \A i, j \in 1..Len(relayed) : i # j => relayed[i] # relayed[j]
    /\ \A d \in Msgs : pc[D(d)] \in {"send", "pause"} =>
          /\ \E i \in 1..Len(relayed) : relayed[i] = text[D(d)]
          /\ \A e \in Msgs : (e # d /\ pc[D(e)] \in {"send", "pause"})
                                => text[D(e)] # text[D(d)]
    /\ message_queue # <<>> => \E d \in Msgs : Alive(d)

\* two records were queued together and both have been popped, in order
C4_Witness ==
    /\ relayed = <<2, 3>>
    /\ message_queue = <<>>
    /\ \A d \in Msgs : ~Alive(d)

\* ------------------------------------------------------------------------
\* C5: two consecutive pops of the queue (each followed by the relay of the
\* popped record) are at least queue_delay apart.
\* ------------------------------------------------------------------------
C5_PopsQueueDelayApart ==
    [][(Len(relayed') > Len(relayed) /\ Len(relayed) > 0)
        => sincePop >= queue_delay]_vars

\* ------------------------------------------------------------------------
\* C6: when is_forwarding goes from true to false the queue is empty and no
\* relay of a popped record is in progress.
\* ------------------------------------------------------------------------
C6_IdleOnlyAfterLastDelivery ==
    [][(is_forwarding /\ ~is_forwarding')
        => /\ message_queue = <<>>
           /\ \A d \in Msgs : pc'[D(d)] \notin {"send", "pause"}]_vars

\* ------------------------------------------------------------------------
\* C7: an accepted record admitted while is_forwarding is false or more
\* than rate_limit after last_forward_time is passed to forward_to_targets
\* at once and is not appended to the queue; the handler keeps the time it
\* read at admission, and when it completes it writes that time to
\* last_forward_time and sets is_forwarding.
\* ------------------------------------------------------------------------
C7_ImmediateSlotTaken ==
    [][\A h \in Msgs :
          /\ (Admits /\ arrived' = h
                /\ (~is_forwarding \/ now - last_forward_time > rate_limit))
                => /\ pc'[H(h)] = "send"
                   /\ text'[H(h)] = h
                   /\ current'[h] = now
                   /\ message_queue' = message_queue
                   /\ enqueued' = enqueued
          /\ (Relaying(h) /\ pc'[H(h)] \in {"send", "pause"})
                => current'[h] = current[h]
          /\ (Relaying(h) /\ pc'[H(h)] \notin {"send", "pause"})
                => /\ pc'[H(h)] = "done"
                   /\ last_forward_time' = current[h]
                   /\ is_forwarding'
                   /\ \A i \in 1..Len(enqueued') : enqueued'[i] # h]_vars

\* the third record took an immediate slot while is_forwarding was set (the
\* second record is still queued, so no process_queue task has cleared the
\* flag) and its handler has completed
C7_Witness ==
    /\ pc[H(3)] = "done"
    /\ message_queue = <<2>>
    /\ relayed = <<>>
    /\ is_forwarding
    /\ last_forward_time - StartTime > rate_limit

\* ------------------------------------------------------------------------
\* C8: the admission of an accepted record either passes exactly that
\* record to forward_to_targets and leaves the queue alone, or appends
\* exactly that record to the tail of the queue, never both and never
\* neither; no other step adds to the queue or removes anything but its
\* head.
\* ------------------------------------------------------------------------
C8_RelayedOrQueuedOnce ==
    [][/\ Admits =>
            \/ /\ pc'[H(arrived')] = "send"
               /\ text'[H(arrived')] = arrived'
               /\ message_queue' = message_queue
            \/ /\ pc'[H(arrived')] = "queued"
               /\ text'[H(arrived')] = 0
               /\ message_queue' = message_queue \o <<arrived'>>
       /\ ~Admits =>
            \/ message_queue' = message_queue
            \/ /\ message_queue # <<>>
               /\ message_queue' = Tail(message_queue)
       /\ \A h \in Msgs : pc[H(h)] # "none" => pc'[H(h)] # "none"]_vars

\* one record was relayed at once and a burst of two is queued behind it
C8_Witness ==
    /\ pc[H(1)] = "done"
    /\ message_queue = <<2, 3>>

\* ------------------------------------------------------------------------
\* C9: in every call of forward_to_targets the channels sent to so far are
\* the first chan[t] target channels in order; a send that returns and a
\* send that raises are both followed by the sleep and then by the next
\* channel; the call ends only after every channel has been sent to once,
\* and its caller goes on normally.
\* ------------------------------------------------------------------------
C9_EveryChannelOnce ==
    [][\A t \in Tasks :
          /\ pc'[t] \in {"send", "pause"}
                => /\ chan'[t] \in 1..Len(target_channels)
                   /\ tried'[t] = SubSeq(target_channels, 1, chan'[t])
          /\ (pc[t] = "send" /\ pc'[t] # "send")
                => pc'[t] = "pause" /\ chan'[t] = chan[t]
          /\ (pc[t] = "pause" /\ pc'[t] = "send")
                => chan'[t] = chan[t] + 1
          /\ (pc[t] = "pause" /\ pc'[t] \notin {"send", "pause"})
                => /\ tried[t] = target_channels
                   /\ pc'[t] \in {"done", "sleep"}]_vars

\* the send to the last channel raised after the first channel was sent
\* to, and the call is in the sleep that precedes its return
C9_Witness ==
    \E t \in Tasks :
        /\ pc[t] = "pause"
        /\ timer[t] = ErrorPause
        /\ chan[t] = Len(target_channels)
        /\ tried[t] = target_channels

\* ------------------------------------------------------------------------
\* C10: under fair scheduling of the tasks and of time, every record
\* appended to the queue is eventually popped and passed to
\* forward_to_targets.
\* ------------------------------------------------------------------------
C10_QueuedEventuallyRelayed ==
    \A h \in Msgs :
        (pc[H(h)] = "queued") ~> (\E i \in 1..Len(relayed) : relayed[i] = h)

\* the third record took an immediate slot while the second was queued:
\* its process_queue task slept on the non-empty queue and found it empty
\* on waking, the first task having popped and relayed the second record
C10_Witness ==
    /\ relayed = <<2>>
    /\ pc[D(3)] = "error"

\* ------------------------------------------------------------------------
\* C11: no step of forward_to_targets (a send that returns, a send that
\* raises, the move to the next channel) changes message_queue,
\* is_forwarding or last_forward_time, so a call with failed sends leaves
\* them as a call without failures does.
\* ------------------------------------------------------------------------
C11_RelayLeavesStateAlone ==
    [][(\E t \in Tasks :
           \/ pc[t] = "send" /\ pc'[t] = "pause"
           \/ pc[t] = "pause" /\ pc'[t] = "send")
        => UNCHANGED <<message_queue, is_forwarding, last_forward_time>>]_vars

\* a send of an immediate relay has just raised while a record is queued
\* and is_forwarding is set
C11_Witness ==
    \E h \in Msgs :
        /\ pc[H(h)] = "pause"
        /\ timer[H(h)] = ErrorPause
        /\ chan[H(h)] = 1
        /\ message_queue # <<>>
        /\ is_forwarding

\* ------------------------------------------------------------------------
\* C14: a text is accepted only if, with the markup tags stripped, it has
\* at least three non-empty trimmed lines, the first matching the amount
\* pattern (so it has a plus-minus sign), the second the claim pattern (so
\* it has `Claimed:` and a slash) and the third the code pattern (so it
\* has the gift sign).
\* ------------------------------------------------------------------------
C14_AcceptsOnlyThreeMatchingLines ==
    (parsed # Unset /\ parsed # None) =>
        LET ls == Lines(StripTags(raw))
        IN  /\ Len(ls) >= 3
            /\ match_amount(ls[1]).ok
            /\ match_claim(ls[2]).ok
            /\ match_code(ls[3]).ok
            /\ Contains(ls[1], <<"PLUSMINUS">>)
            /\ Contains(ls[2], ClaimedLit)
            /\ Contains(ls[2], <<"/">>)
            /\ Contains(ls[3], <<"GIFT">>)

\* exactly three non-empty lines, the first and the third matching and the
\* second without `Claimed:`: rejected
C14_Witness ==
    /\ raw = <<"MONEYBAG", " ", "PLUSMINUS", " ", "0", ".", "5", " ", "B", "N",
               "B", "\n", "ENVELOPE", " ", "6", " ", "/", " ", "7", "\n",
               "GIFT", " ", "K", "1">>
    /\ parsed = None

\* ------------------------------------------------------------------------
\* C15: the result for an accepted text is the template filled with the
\* code of line 3, the amount and token of line 1 and claimed / total of
\* line 2, whatever lines follow the third; for the message of the
\* source's comments it is the text written out below.
\* ------------------------------------------------------------------------
C15_TemplateOfThreeLines ==
    (parsed # Unset /\ parsed # None) =>
        LET ls == Lines(StripTags(raw))
            nl == <<"\n">>
        IN  /\ parsed =
                  <<"GIFT", " ", "C", "o", "d", "e", ":", " ">>
                  \o match_code(ls[3]).code \o nl
                  \o <<"MONEYBAG", " ", "A", "m", "o", "u", "n", "t", ":", " ">>
                  \o match_amount(ls[1]).amount \o <<" ">>
                  \o match_amount(ls[1]).token \o nl
                  \o <<"ENVELOPE", " ", "P", "r", "o", "g", "r", "e", "s", "s",
                       ":", " ">>
                  \o match_claim(ls[2]).claimed \o <<" ", "/", " ">>
                  \o match_claim(ls[2]).total \o nl \o nl
                  \o <<"#", "B", "i", "n", "a", "n", "c", "e", " ", "#", "R",
                       "e", "d", "P", "a", "c", "k", "e", "t", "H", "u", "b">>
            /\ raw = Example =>
                  parsed =
                    <<"GIFT", " ", "C", "o", "d", "e", ":", " ", "I", "J", "A",
                      "U", "5", "U", "L", "6", "\n", "MONEYBAG", " ", "A", "m",
                      "o", "u", "n", "t", ":", " ", "0", ".", "0", "0", "0",
                      "0", "0", "0", "0", "2", " ", "B", "N", "B", "\n",
                      "ENVELOPE", " ", "P", "r", "o", "g", "r", "e", "s", "s",
                      ":", " ", "6", "4", "6", " ", "/", " ", "7", "1", "1",
                      "\n", "\n", "#", "B", "i", "n", "a", "n", "c", "e", " ",
                      "#", "R", "e", "d", "P", "a", "c", "k", "e", "t", "H",
                      "u", "b">>

\* an accepted text with a fourth line
C15_Witness ==
    /\ parsed # Unset
    /\ parsed # None
    /\ Len(Lines(StripTags(raw))) = 4

\* ------------------------------------------------------------------------
\* C16: a result of parse_and_format_message, parsed again as a raw text,
\* is rejected or gives a result other than itself.
\* ------------------------------------------------------------------------
C16_ResultDoesNotReparse ==
    (parsed # Unset /\ parsed # None) =>
        \/ parse_and_format_message(parsed) = None
        \/ parse_and_format_message(parsed) # parsed

\* a formatted text was fed back as raw text and rejected
C16_Witness ==
    /\ LitAt(raw, 1, <<"GIFT", " ", "C", "o", "d", "e", ":">>)
    /\ parsed = None

\* ------------------------------------------------------------------------
\* C12: the handler of a message whose text has `http://`, `https://` or
\* `<a href=` in it returns without calling the parser, without starting a
\* relay and without appending to the queue: the step changes nothing of
\* the program's state, whatever the lines of the text are.
\* ------------------------------------------------------------------------
C12_LinkNeverRelayedNorQueued ==
    [][(/\ raw = <<>>
        /\ raw' # <<>>
        /\ \/ Contains(raw', <<"h", "t", "t", "p", ":", "/", "/">>)
           \/ Contains(raw', <<"h", "t", "t", "p", "s", ":", "/", "/">>)
           \/ Contains(raw', <<"<", "a", " ", "h", "r", "e", "f", "=">>))
        => /\ parsed' = Unset
           /\ UNCHANGED core]_vars

\* a message of three matching lines with an anchor tag came in after a
\* message was accepted, and no second message was accepted
C12_Witness ==
    /\ Contains(raw, <<"<", "a", " ", "h", "r", "e", "f", "=">>)
    /\ match_amount(Lines(StripTags(raw))[1]).ok
    /\ parsed = Unset
    /\ arrived = 1
    /\ pc[H(2)] = "none"

\* ------------------------------------------------------------------------
\* C13: the handler of a message that has a link, or fewer than three
\* non-empty lines once the tags are stripped, or a line 1, 2 or 3 that
\* does not match its pattern (among them a line 1 without the plus-minus
\* sign, a line 2 without `Claimed:`, a line 3 without the gift sign)
\* produces no record (a record is only ever produced for a text with none
\* of these), and the handler of a message that produces no record changes
\* nothing: message_queue, is_forwarding, last_forward_time and
\* every task stay as they are.
\* ------------------------------------------------------------------------
C13_RejectionChangesNothing ==
    /\ [](\/ parsed \in {Unset, None}
          \/ LET ls == Lines(StripTags(raw))
             IN  ~(\/ Contains(raw, <<"h", "t", "t", "p", ":", "/", "/">>)
                   \/ Contains(raw, <<"h", "t", "t", "p", "s", ":", "/", "/">>)
                   \/ Contains(raw, <<"<", "a", " ", "h", "r", "e", "f", "=">>)
                   \/ Len(ls) < 3
                   \/ ~Contains(ls[1], <<"PLUSMINUS">>)
                   \/ ~Contains(ls[2], ClaimedLit)
                   \/ ~Contains(ls[3], <<"GIFT">>)
                   \/ ~match_amount(ls[1]).ok
                   \/ ~match_claim(ls[2]).ok
                   \/ ~match_code(ls[3]).ok))
    /\ [][(raw = <<>> /\ raw' # <<>> /\ parsed' \in {Unset, None})
            => UNCHANGED core]_vars

\* a message the parser rejects came in while the relay of an accepted
\* message was in progress
C13_Witness ==
    /\ raw # <<>>
    /\ parsed = None
    /\ pc[H(1)] = "send"
    /\ arrived = 1

\* ------------------------------------------------------------------------
\* C17: under fair scheduling the program comes to rest for good: every
\* handler has returned, every process_queue task has ended, the queue is
\* empty and is_forwarding is false.
\* ------------------------------------------------------------------------
C17_EventuallyIdle ==
    <>[](/\ \A h \in Msgs : pc[H(h)] \notin {"send", "pause"}
         /\ \A d \in Msgs : ~Alive(d)
         /\ message_queue = <<>>
         /\ ~is_forwarding)

\* three messages were accepted, one of them was queued and drained, and
\* all tasks have ended with the flag cleared
C17_Witness ==
    /\ arrived = 3
    /\ Len(relayed) = 1
    /\ \A h \in Msgs : pc[H(h)] \notin {"send", "pause"}
    /\ \A d \in Msgs : ~Alive(d)
    /\ message_queue = <<>>
    /\ ~is_forwarding

\* ------------------------------------------------------------------------
\* C18: no process_queue task pops from an empty queue: none ends with the
\* IndexError of popleft.
\* ------------------------------------------------------------------------
C18_NoPopFromEmptyQueue == \A d \in Msgs : pc[D(d)] # "error"

\* ------------------------------------------------------------------------
\* C19: whenever is_forwarding is false the queue is empty.
\* ------------------------------------------------------------------------
C19_IdleMeansEmptyQueue == ~is_forwarding => message_queue = <<>>

\* the flag was cleared after two queued records were popped
C19_Witness ==
    /\ ~is_forwarding
    /\ Len(relayed) = 2
    /\ message_queue = <<>>
    /\ \E d \in Msgs : pc[D(d)] = "done"

\* ------------------------------------------------------------------------
\* C20: last_forward_time never decreases.
\* ------------------------------------------------------------------------
C20_LastForwardTimeMonotone ==
    [][last_forward_time' >= last_forward_time]_vars

====
